---- MODULE Spec2Model ----
(***************************************************************************)
(* Portal list manager (src/unnamed/part_000): the portal list, the three  *)
(* derivation passes (travel, closest, target), the handlers that mutate   *)
(* the list and re-run the passes, and the coordinate converter.           *)
(*                                                                         *)
(* JavaScript values are tagged records: null, undefined, Num(n), Str(s).  *)
(* A distance is the real number Math.sqrt(r) of an integer radicand r; it *)
(* is written Sqrt(r) and two distances compare as their radicands do.     *)
(***************************************************************************)
EXTENDS Integers, Sequences, FiniteSets, TLC

VARIABLES
  portals,   \* `let portals`: the ordered list of portal records
  topWorld,  \* `let topWorld`: world selected by the top toggle buttons
  cards,     \* number of .portal-card elements in #portalList (cards 1..cards have live handlers)
  addBtn,    \* whether the "+ Add Portal" button is in #portalList
  log,       \* history: the last handler run, how its sweep ended, derived fields before an aborted sweep
  calc       \* position of the pure-function harnesses (SpecCalc, SpecConvert); idle in Spec

vars == <<portals, topWorld, cards, addBtn, log, calc>>

(***************************************************************************)
(* Values                                                                  *)
(***************************************************************************)
null == [t |-> "null"]
undefined == [t |-> "undefined"]
Num(n) == [t |-> "num", n |-> n]
Str(s) == [t |-> "str", s |-> s]
Sqrt(r) == [t |-> "num", sq |-> r]

\* v == null in JavaScript: true of null and of undefined
IsNullish(v) == v.t \in {"null", "undefined"}

\* !v for the values a name or destination can hold
Falsy(v) == IsNullish(v) \/ v = Str("")

WORLD_OVERWORLD == Str("Overworld")
WORLD_NETHER == Str("Nether")
CannotReach == Str("Cannot Reach")

\* { x: null, y: null, z: null, world: null } and { name: null, distance: null }
NoTravel == [t |-> "obj", x |-> null, y |-> null, z |-> null, world |-> null]
NoName == [t |-> "obj", name |-> null, distance |-> null]

createBlankPortal ==
  [t |-> "obj", name |-> Str(""), destination |-> Str(""),
   x |-> null, y |-> null, z |-> null, world |-> WORLD_OVERWORLD,
   travel |-> NoTravel, closest |-> NoName, target |-> NoName]

(***************************************************************************)
(* Math helpers                                                            *)
(***************************************************************************)
\* Math.trunc in place of Math.floor
convertCoordsTrunc(x, z, fromWorld, toWorld) ==
  LET trunc(a) == IF a >= 0 THEN a \div 8 ELSE -((-a) \div 8) IN
  IF IsNullish(x) \/ IsNullish(z) THEN [x |-> null, z |-> null]
  ELSE IF fromWorld = WORLD_OVERWORLD /\ toWorld = WORLD_NETHER
       THEN [x |-> Num(trunc(x.n)), z |-> Num(trunc(z.n))]
  ELSE IF fromWorld = WORLD_NETHER /\ toWorld = WORLD_OVERWORLD
       THEN [x |-> Num(x.n * 8), z |-> Num(z.n * 8)]
  ELSE [x |-> x, z |-> z]

convertCoords(x, z, fromWorld, toWorld) ==
  IF IsNullish(x) \/ IsNullish(z) THEN [x |-> null, z |-> null]
  ELSE IF fromWorld = WORLD_OVERWORLD /\ toWorld = WORLD_NETHER
       THEN [x |-> Num(x.n \div 8), z |-> Num(z.n \div 8)]
  ELSE IF fromWorld = WORLD_NETHER /\ toWorld = WORLD_OVERWORLD
       THEN [x |-> Num(x.n * 8), z |-> Num(z.n * 8)]
  ELSE [x |-> x, z |-> z]

distance3D(x1, y1, z1, x2, y2, z2) ==
  IF \E v \in {x1, y1, z1, x2, y2, z2} : IsNullish(v) THEN null
  ELSE LET dx == x2.n - x1.n
           dy == y2.n - y1.n
           dz == z2.n - z1.n
       IN Sqrt(dx * dx + dy * dy + dz * dz)

Abs(a) == IF a < 0 THEN -a ELSE a

\* Number.POSITIVE_INFINITY, the initial bestDist
Infinity == [t |-> "inf"]

\* d <= b in place of d < b
LessOrEqual(d, b) == b.t = "inf" \/ d.sq <= b.sq

\* d < b for a finite distance d and a running minimum b
Less(d, b) == b.t = "inf" \/ d.sq < b.sq

\* the Overworld range in both worlds
maxRangeOverworldOnly(world) == IF world = WORLD_NETHER THEN 128 ELSE 128

\* (world === WORLD_NETHER) ? 16 : 128
maxRange(world) == IF world = WORLD_NETHER THEN 16 ELSE 128

(***************************************************************************)
(* Calculations per portal.  Each takes the list and an index and returns  *)
(* the record at that index with one derived field rewritten.              *)
(***************************************************************************)
\* the travel location left in the portal's own world
computePortalTravelLocationSameWorld(portal) ==
  IF IsNullish(portal.x) \/ IsNullish(portal.y) \/ IsNullish(portal.z)
  THEN [portal EXCEPT !.travel = NoTravel]
  ELSE LET targetWorld == portal.world
           converted == convertCoords(portal.x, portal.z, portal.world, targetWorld)
       IN [portal EXCEPT !.travel = [t |-> "obj", x |-> converted.x, y |-> portal.y,
                                     z |-> converted.z, world |-> targetWorld]]

\* the incomplete-position test without y
computePortalTravelLocationXZOnly(portal) ==
  IF IsNullish(portal.x) \/ IsNullish(portal.z)
  THEN [portal EXCEPT !.travel = NoTravel]
  ELSE LET targetWorld == IF portal.world = WORLD_OVERWORLD
                          THEN WORLD_NETHER ELSE WORLD_OVERWORLD
           converted == convertCoords(portal.x, portal.z, portal.world, targetWorld)
       IN [portal EXCEPT !.travel = [t |-> "obj", x |-> converted.x, y |-> portal.y,
                                     z |-> converted.z, world |-> targetWorld]]

computePortalTravelLocation(portal) ==
  IF IsNullish(portal.x) \/ IsNullish(portal.y) \/ IsNullish(portal.z)
  THEN [portal EXCEPT !.travel = NoTravel]
  ELSE LET targetWorld == IF portal.world = WORLD_OVERWORLD
                          THEN WORLD_NETHER ELSE WORLD_OVERWORLD
           converted == convertCoords(portal.x, portal.z, portal.world, targetWorld)
       IN [portal EXCEPT !.travel = [t |-> "obj", x |-> converted.x, y |-> portal.y,
                                     z |-> converted.z, world |-> targetWorld]]

\* the body of portals.forEach((other, i) => ...) from element i to the end
RECURSIVE closestScan(_, _, _, _, _, _)
closestScan(list, index, travel, i, best, bestDist) ==
  IF i > Len(list) THEN [best |-> best, bestDist |-> bestDist]
  ELSE LET other == list[i]
           skip == closestScan(list, index, travel, i + 1, best, bestDist)
       IN IF i = index THEN skip
          ELSE IF other.world # travel.world THEN skip
          ELSE IF IsNullish(other.x) \/ IsNullish(other.z) THEN skip
          ELSE LET dx == Abs(other.x.n - travel.x.n)
                   dz == Abs(other.z.n - travel.z.n)
                   d3 == distance3D(travel.x, travel.y, travel.z, other.x, other.y, other.z)
               IN IF dx > maxRange(travel.world) \/ dz > maxRange(travel.world) THEN skip
                  ELSE IF IsNullish(d3) THEN skip
                  ELSE IF Less(d3, bestDist)
                       THEN closestScan(list, index, travel, i + 1, i, d3)
                       ELSE skip

computeClosestPortal(list, index) ==
  LET portal == list[index]
      travel == portal.travel
  IN IF IsNullish(travel) \/ IsNullish(travel.x) \/ IsNullish(travel.z)
     THEN [portal EXCEPT !.closest = NoName]
     ELSE LET r == closestScan(list, index, travel, 1, 0, Infinity)
          IN [portal EXCEPT !.closest =
                IF r.best # 0
                THEN [t |-> "obj",
                      name |-> IF Falsy(list[r.best].name) THEN Str("(unnamed)")
                               ELSE list[r.best].name,
                      distance |-> r.bestDist]
                ELSE NoName]

\* portals.find((p) => p.name === destination): index of the first match, 0 if none
\* Array.prototype.find from the end of the list
findLastByName(list, destination) ==
  LET matches == {i \in 1..Len(list) : list[i].name = destination}
  IN IF matches = {} THEN 0 ELSE CHOOSE i \in matches : \A j \in matches : i >= j

findByName(list, destination) ==
  LET matches == {i \in 1..Len(list) : list[i].name = destination}
  IN IF matches = {} THEN 0 ELSE CHOOSE i \in matches : \A j \in matches : i <= j

\* computeTargetPortal without STEP 2, the comparison of the worlds
computeTargetPortalAnyWorld(list, index) ==
  LET portal == list[index]
      found == findByName(list, portal.destination)
      target == list[found]
      travel == portal.travel
      cannot == [t |-> "obj", name |-> target.name, distance |-> CannotReach]
  IN IF Falsy(portal.destination) THEN [portal EXCEPT !.target = NoName]
     ELSE IF found = 0 THEN [portal EXCEPT !.target = NoName]
     ELSE IF IsNullish(target.x) \/ IsNullish(target.z) THEN [portal EXCEPT !.target = NoName]
     ELSE IF IsNullish(travel) \/ IsNullish(travel.x) \/ IsNullish(travel.z)
          THEN [portal EXCEPT !.target = cannot]
     ELSE IF \/ Abs(target.x.n - travel.x.n) > maxRange(travel.world)
             \/ Abs(target.z.n - travel.z.n) > maxRange(travel.world)
          THEN [portal EXCEPT !.target = cannot]
     ELSE [portal EXCEPT !.target =
             [t |-> "obj", name |-> target.name,
              distance |-> distance3D(travel.x, travel.y, travel.z,
                                      target.x, target.y, target.z)]]

computeTargetPortal(list, index) ==
  LET portal == list[index]
      found == findByName(list, portal.destination)
      target == list[found]
      travel == portal.travel
      cannot == [t |-> "obj", name |-> target.name, distance |-> CannotReach]
  IN IF Falsy(portal.destination) THEN [portal EXCEPT !.target = NoName]
     ELSE IF found = 0 THEN [portal EXCEPT !.target = NoName]
     ELSE IF IsNullish(target.x) \/ IsNullish(target.z) THEN [portal EXCEPT !.target = NoName]
     ELSE IF IsNullish(travel) \/ IsNullish(travel.x) \/ IsNullish(travel.z)
          THEN [portal EXCEPT !.target = cannot]
     ELSE IF travel.world # target.world THEN [portal EXCEPT !.target = cannot]
     ELSE IF \/ Abs(target.x.n - travel.x.n) > maxRange(travel.world)
             \/ Abs(target.z.n - travel.z.n) > maxRange(travel.world)
          THEN [portal EXCEPT !.target = cannot]
     ELSE [portal EXCEPT !.target =
             [t |-> "obj", name |-> target.name,
              distance |-> distance3D(travel.x, travel.y, travel.z,
                                      target.x, target.y, target.z)]]

(***************************************************************************)
(* Global calculation dispatcher                                           *)
(***************************************************************************)
\* index of the first null element of the list, 0 if there is none
firstNull(list) ==
  LET nulls == {i \in 1..Len(list) : list[i] = null}
  IN IF nulls = {} THEN 0 ELSE CHOOSE i \in nulls : \A j \in nulls : i <= j

\* portals.forEach((portal) => computePortalTravelLocation(portal)): destructuring a
\* null element throws, the elements before it have been rewritten
travelPass(list) ==
  LET k == firstNull(list)
  IN [i \in 1..Len(list) |->
        IF k = 0 \/ i < k THEN computePortalTravelLocation(list[i]) ELSE list[i]]

closestPass(list) == [i \in 1..Len(list) |-> computeClosestPortal(list, i)]

targetPass(list) == [i \in 1..Len(list) |-> computeTargetPortal(list, i)]

\* updatePortalCardDisplays throws (toFixed of null) for a card whose portal carries
\* a name with a null distance
displayThrows(list, ncards) ==
  \E i \in 1..ncards :
    /\ i <= Len(list)
    /\ list[i] # null
    /\ \/ /\ ~IsNullish(list[i].closest) /\ ~IsNullish(list[i].closest.name)
          /\ IsNullish(list[i].closest.distance)
       \/ /\ ~IsNullish(list[i].target) /\ ~IsNullish(list[i].target.name)
          /\ list[i].target.distance # CannotReach
          /\ IsNullish(list[i].target.distance)

\* the try block: the three passes, then the display refresh; err names what was
\* caught ("none", "travel" for the TypeError of the travel pass, "display")
updateAllPortalCalculations(list, ncards) ==
  LET p1 == travelPass(list)
      p3 == targetPass(closestPass(p1))
  IN IF firstNull(list) # 0 THEN [portals |-> p1, err |-> "travel"]
     ELSE [portals |-> p3,
           err |-> IF displayThrows(p3, ncards) THEN "display" ELSE "none"]

(***************************************************************************)
(* Bounds and input sets                                                   *)
(***************************************************************************)
MaxPortals == 1      \* the add handlers act on lists shorter than this
MaxClosestList == 3  \* longest input list of the closest-portal harness
MaxTargetList == 2   \* longest input list of the target harness
MaxCoord == 20       \* |x|, |z| of the converter harness
MaxSweepList == 3    \* longest input list of the step-by-step sweep

Idle == [phase |-> "ui"]
NoLog == [op |-> "init", n |-> 0, err |-> "none", pre |-> <<>>]

Worlds == {WORLD_OVERWORLD, WORLD_NETHER}

Pos(x, y, z) == [x |-> x, y |-> y, z |-> z]

InputPortal(name, destination, pos, world) ==
  [createBlankPortal EXCEPT !.name = Str(name), !.destination = Str(destination),
                            !.x = pos.x, !.y = pos.y, !.z = pos.z, !.world = world]

\* positions of the closest-portal harness: the boundary of both search regions
\* (16 and 17 from a travel of 0 in the Nether; 128 and 129 from a travel of 128
\* in the Overworld), a y offset, and incomplete positions
ClosestPositions ==
  {Pos(Num(0), Num(0), Num(0)), Pos(Num(16), Num(0), Num(0)), Pos(Num(16), Num(6), Num(0)),
   Pos(Num(17), Num(0), Num(0)), Pos(Num(0), Num(0), Num(17)), Pos(Num(-1), Num(0), Num(0)),
   Pos(null, Num(0), Num(0)), Pos(Num(0), null, Num(0))}

\* the portal in slot i of a closest-harness list is named by its slot
SlotName(i) == IF i = 1 THEN "A" ELSE IF i = 2 THEN "B" ELSE ""

TargetPositions ==
  {Pos(Num(0), Num(0), Num(0)), Pos(Num(17), Num(0), Num(0)), Pos(Num(0), Num(0), Num(17)),
   Pos(null, Num(0), Num(0)), Pos(Num(0), null, Num(0)), Pos(Num(0), Num(0), null)}

TargetPortals ==
  {InputPortal(n, d, pos, w) : n \in {"", "A"}, d \in {"", "A"},
                               pos \in TargetPositions, w \in Worlds}

(***************************************************************************)
(* Portal factory, sanitization, storage                                   *)
(***************************************************************************)
sanitizePortal(raw) ==
  IF raw = null THEN createBlankPortal   \* raw.name throws, the catch resets the portal
  ELSE [t |-> "obj",
        name |-> IF raw.name.t = "str" THEN raw.name ELSE Str(""),
        destination |-> IF raw.destination.t = "str" THEN raw.destination ELSE Str(""),
        x |-> IF raw.x.t = "num" THEN raw.x ELSE null,
        y |-> IF raw.y.t = "num" THEN raw.y ELSE null,
        z |-> IF raw.z.t = "num" THEN raw.z ELSE null,
        world |-> IF raw.world = WORLD_NETHER THEN WORLD_NETHER ELSE WORLD_OVERWORLD,
        travel |-> IF IsNullish(raw.travel) THEN NoTravel ELSE raw.travel,
        closest |-> IF IsNullish(raw.closest) THEN NoName ELSE raw.closest,
        target |-> IF IsNullish(raw.target) THEN NoName ELSE raw.target]

\* what JSON.parse returns for localStorage or an imported file: an array of
\* items, or something that is not an array
Array(items) == [isArray |-> TRUE, items |-> items]
NotAnArray == [isArray |-> FALSE, items |-> <<>>]

\* a record exported earlier: its derived fields are those of the list it was in
StalePortal ==
  [InputPortal("A", "A", Pos(Num(17), Num(17), Num(17)), WORLD_OVERWORLD) EXCEPT
     !.travel = [t |-> "obj", x |-> Num(0), y |-> Num(0), z |-> Num(0), world |-> WORLD_NETHER],
     !.closest = [t |-> "obj", name |-> Str("B"), distance |-> Sqrt(4)],
     !.target = [t |-> "obj", name |-> Str("A"), distance |-> Sqrt(4)]]

\* a record written by hand: no y and no derived fields
PartialPortal ==
  [InputPortal("", "A", Pos(Num(17), undefined, Num(17)), WORLD_NETHER) EXCEPT
     !.travel = undefined, !.closest = undefined, !.target = undefined]

Files ==
  {Array(<<>>), Array(<<null>>), Array(<<StalePortal>>), Array(<<StalePortal, null>>),
   Array(<<StalePortal, PartialPortal>>), NotAnArray}

\* the sanitized array, or <<>> for `return null`
loadPortalsFromStorage(raw) ==
  IF ~raw.isArray THEN <<>>
  ELSE [i \in 1..Len(raw.items) |-> sanitizePortal(raw.items[i])]

initializePortals(raw) ==
  LET stored == loadPortalsFromStorage(raw)
  IN IF Len(stored) > 0 THEN stored ELSE <<createBlankPortal>>

(***************************************************************************)
(* Rendering                                                               *)
(***************************************************************************)
\* travel, closest and target of every element (null for a null element)
Derived(list) ==
  [i \in 1..Len(list) |->
     IF list[i] = null THEN null
     ELSE [travel |-> list[i].travel, closest |-> list[i].closest, target |-> list[i].target]]

\* renderPortalList: one card per portal, then the sweep, then the add button;
\* createPortalCard throws on a null element (portal.name), which leaves the cards
\* built so far and neither the sweep nor the button
renderPortalList(list) ==
  LET k == firstNull(list)
      u == updateAllPortalCalculations(list, Len(list))
  IN IF k # 0
     THEN [portals |-> list, cards |-> k - 1, addBtn |-> FALSE, err |-> "render"]
     ELSE [portals |-> u.portals, cards |-> Len(list), addBtn |-> TRUE, err |-> u.err]

\* the history record of a handler: its name, for a delete the length of the list
\* before it, what was thrown, and the derived fields the list held when an aborted sweep began
Logged(op, list, err) ==
  [op |-> op, n |-> IF op = "delete" THEN Len(portals) ELSE 0, err |-> err,
   pre |-> IF err = "travel" THEN Derived(list) ELSE <<>>]

\* the handlers that replace or resize the list: save, then renderPortalList
Rerender(op, list) ==
  LET r == renderPortalList(list)
  IN /\ portals' = r.portals
     /\ cards' = r.cards
     /\ addBtn' = r.addBtn
     /\ log' = Logged(op, list, r.err)
     /\ UNCHANGED <<topWorld, calc>>

\* the input handlers of a card: assign the field, save, updateAllPortalCalculations
Recalculate(list) ==
  LET u == updateAllPortalCalculations(list, cards)
  IN /\ portals' = u.portals
     /\ log' = Logged("edit", list, u.err)
     /\ UNCHANGED <<topWorld, cards, addBtn, calc>>

(***************************************************************************)
(* Spec: the page after DOMContentLoaded and its handlers                  *)
(***************************************************************************)
NameInputs == {Str(""), Str("A")}
CoordInputs == {null, Num(17)}

Init ==
  \E raw \in Files :
    LET r == renderPortalList(initializePortals(raw))
    IN /\ portals = r.portals
       /\ cards = r.cards
       /\ addBtn = r.addBtn
       /\ log = [op |-> "init", n |-> 0, err |-> r.err, pre |-> <<>>]
       /\ topWorld = WORLD_OVERWORLD
       /\ calc = Idle

AddPortalButton ==
  /\ addBtn
  /\ Len(portals) < MaxPortals
  /\ Rerender("add", Append(portals, createBlankPortal))

EditName(index, v) ==
  /\ index \in 1..cards
  /\ Recalculate([portals EXCEPT ![index].name = v])

EditDestination(index, v) ==
  /\ index \in 1..cards
  /\ Recalculate([portals EXCEPT ![index].destination = v])

EditX(index, v) ==
  /\ index \in 1..cards
  /\ Recalculate([portals EXCEPT ![index].x = v])

EditY(index, v) ==
  /\ index \in 1..cards
  /\ Recalculate([portals EXCEPT ![index].y = v])

EditZ(index, v) ==
  /\ index \in 1..cards
  /\ Recalculate([portals EXCEPT ![index].z = v])

EditWorld(index, v) ==
  /\ index \in 1..cards
  /\ Recalculate([portals EXCEPT ![index].world = v])

\* portals.splice(index, 1) alone
spliceOnly(list, index) ==
  [i \in 1..(Len(list) - 1) |-> IF i < index THEN list[i] ELSE list[i + 1]]

\* portals.splice(index, 1); if (portals.length === 0) portals.push(createBlankPortal())
spliceOrBlank(list, index) ==
  LET rest == [i \in 1..(Len(list) - 1) |-> IF i < index THEN list[i] ELSE list[i + 1]]
  IN IF Len(rest) = 0 THEN <<createBlankPortal>> ELSE rest

deletePortal(index) ==
  /\ index \in 1..cards
  /\ Rerender("delete", spliceOrBlank(portals, index))

swap(list, i, j) == [list EXCEPT ![i] = list[j], ![j] = list[i]]

movePortalUp(index) ==
  /\ index \in 1..cards
  /\ IF index <= 1 THEN UNCHANGED vars
     ELSE Rerender("move", swap(portals, index - 1, index))

movePortalDown(index) ==
  /\ index \in 1..cards
  /\ IF index >= Len(portals) THEN UNCHANGED vars
     ELSE Rerender("move", swap(portals, index, index + 1))

SetTopWorld(w) ==
  /\ topWorld' = w
  /\ UNCHANGED <<portals, cards, addBtn, log, calc>>

addPortalFromTopInputs(name, destination, x, y, z) ==
  /\ Len(portals) < MaxPortals
  /\ Rerender("add", Append(portals,
        [createBlankPortal EXCEPT !.name = name, !.destination = destination,
                                  !.x = x, !.y = y, !.z = z, !.world = topWorld]))

resetPortals(confirmed) ==
  IF confirmed THEN Rerender("reset", <<createBlankPortal>>) ELSE UNCHANGED vars

importPortalsFromFile(imported) ==
  IF ~imported.isArray THEN UNCHANGED vars
  ELSE Rerender("import", imported.items)

Next ==
  \/ AddPortalButton
  \/ \E index \in 1..Len(portals), v \in NameInputs : EditName(index, v)
  \/ \E index \in 1..Len(portals), v \in NameInputs : EditDestination(index, v)
  \/ \E index \in 1..Len(portals), v \in CoordInputs : EditX(index, v)
  \/ \E index \in 1..Len(portals), v \in CoordInputs : EditY(index, v)
  \/ \E index \in 1..Len(portals), v \in CoordInputs : EditZ(index, v)
  \/ \E index \in 1..Len(portals), v \in Worlds : EditWorld(index, v)
  \/ \E index \in 1..Len(portals) : deletePortal(index)
  \/ \E index \in 1..Len(portals) : movePortalUp(index)
  \/ \E index \in 1..Len(portals) : movePortalDown(index)
  \/ \E w \in Worlds : SetTopWorld(w)
  \/ \E name \in NameInputs, destination \in NameInputs, x \in CoordInputs,
        y \in CoordInputs, z \in CoordInputs :
       addPortalFromTopInputs(name, destination, x, y, z)
  \/ \E confirmed \in BOOLEAN : resetPortals(confirmed)
  \/ \E imported \in Files : importPortalsFromFile(imported)

Spec == Init /\ [][Next]_vars

(***************************************************************************)
(* SpecCalc: one derivation sweep over an input list, pass by pass         *)
(***************************************************************************)
InitCalc ==
  /\ \/ \E n \in 1..MaxClosestList :
          \E f \in [1..n -> ClosestPositions \X Worlds] :
            portals = [i \in 1..n |-> InputPortal(SlotName(i), "", f[i][1], f[i][2])]
     \/ \E n \in 1..MaxTargetList : \E list \in [1..n -> TargetPortals] : portals = list
  /\ topWorld = WORLD_OVERWORLD
  /\ cards = 0
  /\ addBtn = FALSE
  /\ log = NoLog
  /\ calc = [phase |-> "start"]

CalcTravel ==
  /\ calc.phase = "start"
  /\ portals' = travelPass(portals)
  /\ calc' = [phase |-> "travel"]
  /\ UNCHANGED <<topWorld, cards, addBtn, log>>

CalcClosest ==
  /\ calc.phase = "travel"
  /\ portals' = closestPass(portals)
  /\ calc' = [phase |-> "closest"]
  /\ UNCHANGED <<topWorld, cards, addBtn, log>>

CalcTarget ==
  /\ calc.phase = "closest"
  /\ portals' = targetPass(portals)
  /\ calc' = [phase |-> "done"]
  /\ UNCHANGED <<topWorld, cards, addBtn, log>>

NextCalc == CalcTravel \/ CalcClosest \/ CalcTarget

SpecCalc == InitCalc /\ [][NextCalc]_vars

(***************************************************************************)
(* SpecConvert: convertCoords Overworld -> Nether -> Overworld             *)
(***************************************************************************)
InitConvert ==
  /\ portals = <<createBlankPortal>>
  /\ topWorld = WORLD_OVERWORLD
  /\ cards = 0
  /\ addBtn = FALSE
  /\ log = NoLog
  /\ \E x0 \in -MaxCoord..MaxCoord, z0 \in -MaxCoord..MaxCoord :
       calc = [phase |-> "overworld", x0 |-> x0, z0 |-> z0, x |-> Num(x0), z |-> Num(z0)]

ConvertToNether ==
  /\ calc.phase = "overworld"
  /\ LET c == convertCoords(calc.x, calc.z, WORLD_OVERWORLD, WORLD_NETHER)
     IN calc' = [calc EXCEPT !.phase = "nether", !.x = c.x, !.z = c.z]
  /\ UNCHANGED <<portals, topWorld, cards, addBtn, log>>

ConvertToOverworld ==
  /\ calc.phase = "nether"
  /\ LET c == convertCoords(calc.x, calc.z, WORLD_NETHER, WORLD_OVERWORLD)
     IN calc' = [calc EXCEPT !.phase = "back", !.x = c.x, !.z = c.z]
  /\ UNCHANGED <<portals, topWorld, cards, addBtn, log>>

NextConvert == ConvertToNether \/ ConvertToOverworld

SpecConvert == InitConvert /\ [][NextConvert]_vars

(***************************************************************************)
(* SpecSweep: updateAllPortalCalculations one callback at a time.  The     *)
(* input portals carry derived fields left over from an earlier list.      *)
(***************************************************************************)
LeftOverTravel ==
  [t |-> "obj", x |-> Num(99), y |-> Num(99), z |-> Num(99), world |-> WORLD_NETHER]
LeftOverName == [t |-> "obj", name |-> Str("old"), distance |-> Sqrt(1)]

SweepPortals ==
  {[InputPortal(n, "A", pos, w) EXCEPT !.travel = LeftOverTravel,
                                       !.closest = LeftOverName, !.target = LeftOverName] :
     n \in {"", "A"},
     pos \in {Pos(Num(0), Num(0), Num(0)), Pos(Num(0), null, Num(0))},
     w \in Worlds}

\* one callback per portal for all three passes, portal by portal
sweepNextPerPortal(phase, i, n) ==
  IF phase = "travel" THEN [phase |-> "closest", i |-> i]
  ELSE IF phase = "closest" THEN [phase |-> "target", i |-> i]
  ELSE IF i < n THEN [phase |-> "travel", i |-> i + 1]
  ELSE [phase |-> "done", i |-> 1]

\* the callback that runs after the one of `phase` for element i of n: the rest of
\* the same forEach, then the next forEach from the first element
sweepNext(phase, i, n) ==
  IF i < n THEN [phase |-> phase, i |-> i + 1]
  ELSE IF phase = "travel" THEN [phase |-> "closest", i |-> 1]
  ELSE IF phase = "closest" THEN [phase |-> "target", i |-> 1]
  ELSE [phase |-> "done", i |-> 1]

\* calc after the callback of pass calc.phase on element calc.i; travelled, closested
\* and targeted are the elements each pass has written in this sweep
Advance(field) ==
  LET nx == sweepNext(calc.phase, calc.i, Len(portals))
  IN calc' = [calc EXCEPT !.phase = nx.phase, !.i = nx.i,
                          ![field] = calc[field] \cup {calc.i}]

InitSweep ==
  /\ \E n \in 1..MaxSweepList : \E list \in [1..n -> SweepPortals] : portals = list
  /\ topWorld = WORLD_OVERWORLD
  /\ cards = 0
  /\ addBtn = FALSE
  /\ log = NoLog
  /\ calc = [phase |-> "travel", i |-> 1, travelled |-> {}, closested |-> {},
             targeted |-> {}]

SweepTravel ==
  /\ calc.phase = "travel"
  /\ portals' = [portals EXCEPT ![calc.i] = computePortalTravelLocation(portals[calc.i])]
  /\ Advance("travelled")
  /\ UNCHANGED <<topWorld, cards, addBtn, log>>

SweepClosest ==
  /\ calc.phase = "closest"
  /\ portals' = [portals EXCEPT ![calc.i] = computeClosestPortal(portals, calc.i)]
  /\ Advance("closested")
  /\ UNCHANGED <<topWorld, cards, addBtn, log>>

SweepTarget ==
  /\ calc.phase = "target"
  /\ portals' = [portals EXCEPT ![calc.i] = computeTargetPortal(portals, calc.i)]
  /\ Advance("targeted")
  /\ UNCHANGED <<topWorld, cards, addBtn, log>>

NextSweep == SweepTravel \/ SweepClosest \/ SweepTarget

SpecSweep == InitSweep /\ [][NextSweep]_vars

(***************************************************************************)
(* Properties                                                              *)
(***************************************************************************)
Complete(p) == ~IsNullish(p.x) /\ ~IsNullish(p.y) /\ ~IsNullish(p.z)

HasTravel(p) == ~IsNullish(p.travel.x) /\ ~IsNullish(p.travel.y) /\ ~IsNullish(p.travel.z)

\* R of the search region around a travel location in world w
Radius(w) == IF w = WORLD_NETHER THEN 16 ELSE 128

\* radicand of the 3D distance from p's travel location to c's own position
Dist2(p, c) ==
  (c.x.n - p.travel.x.n) * (c.x.n - p.travel.x.n)
  + (c.y.n - p.travel.y.n) * (c.y.n - p.travel.y.n)
  + (c.z.n - p.travel.z.n) * (c.z.n - p.travel.z.n)

OffsetX(p, c) == Abs(c.x.n - p.travel.x.n)
OffsetZ(p, c) == Abs(c.z.n - p.travel.z.n)

InRegion(p, c) ==
  /\ OffsetX(p, c) <= Radius(p.travel.world)
  /\ OffsetZ(p, c) <= Radius(p.travel.world)

\* the candidates of portal p: other portals of the travel world, complete, in the region
Candidates(p) ==
  {i \in 1..Len(portals) :
     /\ i # p
     /\ portals[i].world = portals[p].travel.world
     /\ Complete(portals[i])
     /\ InRegion(portals[p], portals[i])}

ShownName(c) == IF c.name = Str("") THEN Str("(unnamed)") ELSE c.name

Unset(d) == IsNullish(d.name) /\ IsNullish(d.distance)

ClosestDone == calc.phase \in {"closest", "done"}

\* the first portal named as p's destination, 0 if there is none
Resolved(p) ==
  LET named == {i \in 1..Len(portals) : portals[i].name = portals[p].destination}
  IN IF named = {} THEN 0 ELSE CHOOSE i \in named : \A j \in named : i <= j

HasDestination(p) == portals[p].destination # Str("")

\* the derived fields of the well-formed records, recomputed by the three passes
Recomputed ==
  LET wellFormed == SelectSeq(portals, LAMBDA p : p # null)
  IN Derived(targetPass(closestPass(travelPass(wellFormed))))

\* position of element i among the well-formed records
Rank(i) == Cardinality({j \in 1..i : portals[j] # null})

Fresh ==
  \A i \in 1..Len(portals) :
    portals[i] # null =>
      [travel |-> portals[i].travel, closest |-> portals[i].closest,
       target |-> portals[i].target] = Recomputed[Rank(i)]

\* C1: the portal list is never empty, whatever handlers have run, an import of an
\* empty array included.
Claim_C1_ListNeverEmpty == Len(portals) >= 1

\* C2: after every mutating handler (edit, add, delete, move, import, reset) that
\* ran to its end the travel, closest and target of each portal equal what the three passes compute
\* from scratch over the current list.
Claim_C2_DerivedAlwaysFresh ==
  (log.op \in {"edit", "add", "delete", "move", "import", "reset"} /\ log.err # "render")
    => Fresh

\* C3: deletePortal on a list of one portal leaves exactly one portal, and it is
\* blank: empty name and destination, x, y, z unset, world Overworld, travel,
\* closest and target unset.
Thm_C3_DeleteLastLeavesBlank ==
  (log.op = "delete" /\ log.n = 1) =>
    /\ Len(portals) = 1
    /\ portals[1].name = Str("") /\ portals[1].destination = Str("")
    /\ portals[1].x = null /\ portals[1].y = null /\ portals[1].z = null
    /\ portals[1].world = WORLD_OVERWORLD
    /\ portals[1].travel = [t |-> "obj", x |-> null, y |-> null, z |-> null, world |-> null]
    /\ Unset(portals[1].closest) /\ Unset(portals[1].target)

Wit_C3_DeletedOnlyPortal == log.op = "delete" /\ log.n = 1 /\ log.err = "none"

\* C4: the closest portal of a portal with a travel location is never outside the
\* square of half-side R around that location (R = 16 in the Nether, 128 otherwise):
\* a selected name and distance are those of a candidate within R on both axes, and
\* a candidate within R on both axes (offset exactly R included) gets a closest
\* portal selected.
Thm_C4_ClosestInsideRegion ==
  ClosestDone =>
    \A p \in 1..Len(portals) :
      HasTravel(portals[p]) =>
        /\ ~IsNullish(portals[p].closest.name) =>
             \E i \in Candidates(p) :
               /\ portals[p].closest.name = ShownName(portals[i])
               /\ portals[p].closest.distance = Sqrt(Dist2(portals[p], portals[i]))
        /\ Candidates(p) # {} => ~IsNullish(portals[p].closest.name)

\* the closest portal is at offset exactly R, and a portal at R + 1 that is nearer
\* in 3D was passed over
Wit_C4_BoundaryChosen ==
  /\ ClosestDone
  /\ \E p \in 1..Len(portals) :
       /\ HasTravel(portals[p])
       /\ \E i \in Candidates(p), j \in 1..Len(portals) :
            /\ OffsetX(portals[p], portals[i]) = Radius(portals[p].travel.world)
            /\ portals[p].closest = [t |-> "obj", name |-> ShownName(portals[i]),
                                     distance |-> Sqrt(Dist2(portals[p], portals[i]))]
            /\ j # p /\ Complete(portals[j])
            /\ portals[j].world = portals[p].travel.world
            /\ OffsetX(portals[p], portals[j]) = Radius(portals[p].travel.world) + 1
            /\ Dist2(portals[p], portals[j]) < Dist2(portals[p], portals[i])

\* C5: closest is the candidate (other portal of the travel world, complete, in the
\* region) of least 3D distance, the earliest in the list among those of least
\* distance; it is unset when there is no candidate.
Thm_C5_ClosestIsFirstNearest ==
  ClosestDone =>
    \A p \in 1..Len(portals) :
      HasTravel(portals[p]) =>
        IF Candidates(p) = {} THEN Unset(portals[p].closest)
        ELSE \E m \in Candidates(p) :
               /\ \A j \in Candidates(p) :
                    \/ Dist2(portals[p], portals[m]) < Dist2(portals[p], portals[j])
                    \/ /\ Dist2(portals[p], portals[m]) = Dist2(portals[p], portals[j])
                       /\ m <= j
               /\ portals[p].closest.name = ShownName(portals[m])
               /\ portals[p].closest.distance = Sqrt(Dist2(portals[p], portals[m]))

\* two candidates of different names at the least distance: the earlier one is named
Wit_C5_TieGoesToFirst ==
  /\ ClosestDone
  /\ \E p \in 1..Len(portals) :
       /\ HasTravel(portals[p])
       /\ \E m \in Candidates(p), j \in Candidates(p) :
            /\ m < j
            /\ Dist2(portals[p], portals[m]) = Dist2(portals[p], portals[j])
            /\ \A k \in Candidates(p) :
                 Dist2(portals[p], portals[m]) <= Dist2(portals[p], portals[k])
            /\ ShownName(portals[m]) # ShownName(portals[j])
            /\ portals[p].closest.name = ShownName(portals[m])

\* C6: a portal with a destination that no portal is named, or whose resolved target
\* has any of x, y, z unset, has its target fully unset.
Claim_C6_AbsentTargetUnset ==
  calc.phase = "done" =>
    \A p \in 1..Len(portals) :
      (HasDestination(p) /\ (Resolved(p) = 0 \/ ~Complete(portals[Resolved(p)])))
        => Unset(portals[p].target)

\* C7: when the destination resolves to a complete target, the target field is the
\* target's name with "Cannot Reach" if the travel world differs from the target's
\* world, and also if the worlds match and the target is outside the search region.
Thm_C7_CannotReach ==
  calc.phase = "done" =>
    \A p \in 1..Len(portals) :
      (HasDestination(p) /\ Resolved(p) # 0 /\ Complete(portals[Resolved(p)])) =>
        LET target == portals[Resolved(p)]
            sentinel == [t |-> "obj", name |-> target.name, distance |-> CannotReach]
        IN /\ portals[p].travel.world # target.world => portals[p].target = sentinel
           /\ (portals[p].travel.world = target.world /\ ~InRegion(portals[p], target))
                => portals[p].target = sentinel

\* worlds differ although the target is at the travel location itself
Wit_C7_OtherWorldNearby ==
  /\ calc.phase = "done"
  /\ \E p \in 1..Len(portals) :
       /\ HasDestination(p) /\ Resolved(p) # 0 /\ Complete(portals[Resolved(p)])
       /\ HasTravel(portals[p])
       /\ portals[p].travel.world # portals[Resolved(p)].world
       /\ InRegion(portals[p], portals[Resolved(p)])
       /\ Dist2(portals[p], portals[Resolved(p)]) = 0
       /\ portals[p].target.distance = CannotReach

\* C8: Overworld -> Nether -> Overworld returns the largest multiple of 8 not above
\* each coordinate (floor toward negative infinity), and differs from the input only
\* when x or z is not a multiple of 8.
Thm_C8_RoundTrip ==
  calc.phase = "back" =>
    /\ calc.x.n % 8 = 0 /\ calc.x.n <= calc.x0 /\ calc.x0 < calc.x.n + 8
    /\ calc.z.n % 8 = 0 /\ calc.z.n <= calc.z0 /\ calc.z0 < calc.z.n + 8
    /\ (calc.x.n # calc.x0 \/ calc.z.n # calc.z0) => (calc.x0 % 8 # 0 \/ calc.z0 % 8 # 0)

Wit_C8_NegativeDiverges ==
  calc.phase = "back" /\ calc.x0 < 0 /\ calc.x0 % 8 # 0 /\ calc.x.n # calc.x0

\* C9: after an import of an array with malformed records the sweep completes for the
\* whole list and every well-formed portal has freshly computed travel, closest and
\* target.
Claim_C9_ImportTolerated ==
  (log.op = "import" /\ \E i \in 1..Len(portals) : portals[i] = null) =>
    (log.err \in {"none", "display"} /\ Fresh)

\* C10: an error raised by a pass of the sweep is caught and every portal's travel,
\* closest and target are what they were when the sweep started.
Claim_C10_AbortKeepsDerived ==
  log.err = "travel" => Derived(portals) = log.pre

TravelDone == calc.phase \in {"travel", "closest", "done"}

Opposite(w) == IF w = WORLD_OVERWORLD THEN WORLD_NETHER ELSE WORLD_OVERWORLD

\* C11: after the travel pass a portal with any of x, y, z unset has x, y, z and world
\* of travel unset; any other portal has travel.world the opposite world, travel.y its
\* own y, and travel.x, travel.z the floor of x/8, z/8 from the Overworld and x*8, z*8
\* from the Nether.
Thm_C11_TravelLocation ==
  TravelDone =>
    \A p \in 1..Len(portals) :
      LET P == portals[p]
          T == portals[p].travel
      IN IF ~Complete(P)
         THEN T.x = null /\ T.y = null /\ T.z = null /\ T.world = null
         ELSE /\ T.world = Opposite(P.world)
              /\ T.y = P.y
              /\ P.world = WORLD_OVERWORLD =>
                   /\ 8 * T.x.n <= P.x.n /\ P.x.n < 8 * T.x.n + 8
                   /\ 8 * T.z.n <= P.z.n /\ P.z.n < 8 * T.z.n + 8
              /\ P.world = WORLD_NETHER =>
                   /\ T.x.n = P.x.n * 8
                   /\ T.z.n = P.z.n * 8

\* one list holds an Overworld portal at a negative x, a Nether portal away from the
\* origin and a portal with x and z but no y
Wit_C11_BothDirections ==
  /\ TravelDone
  /\ \E p \in 1..Len(portals), q \in 1..Len(portals), r \in 1..Len(portals) :
       /\ Complete(portals[p]) /\ portals[p].world = WORLD_OVERWORLD
       /\ portals[p].x.n < 0 /\ portals[p].travel.x = Num(-1)
       /\ Complete(portals[q]) /\ portals[q].world = WORLD_NETHER
       /\ portals[q].x.n > 0 /\ portals[q].travel.world = WORLD_OVERWORLD
       /\ ~IsNullish(portals[r].x) /\ ~IsNullish(portals[r].z) /\ IsNullish(portals[r].y)
       /\ portals[r].travel = NoTravel

\* C12: within one sweep closest is computed for no portal before the travel pass
\* has written travel for every portal, target is computed for no portal before the
\* closest pass has written closest for every portal, and once a closest or target has
\* been computed no portal holds a travel left over from before the sweep.
Thm_C12_PassesInOrder ==
  /\ calc.closested # {} => calc.travelled = 1..Len(portals)
  /\ calc.targeted # {} => calc.closested = 1..Len(portals)
  /\ (calc.closested # {} \/ calc.targeted # {}) =>
       \A p \in 1..Len(portals) : portals[p].travel # LeftOverTravel

\* a finished sweep over several portals in which a target distance was measured
Wit_C12_SweepFinished ==
  /\ calc.phase = "done"
  /\ Len(portals) >= 2
  /\ calc.targeted = 1..Len(portals)
  /\ \E p \in 1..Len(portals) : portals[p].target.distance = Sqrt(0)

NullFree == \A i \in 1..Len(portals) : portals[i] # null

\* portal c is where computeTargetPortal measures a distance from p's travel location
Reachable(p, c) == HasTravel(p) /\ p.travel.world = c.world /\ InRegion(p, c)

\* C13: the target of a portal with a destination is decided by the first portal of that
\* name alone, whatever same-named portals follow it: unset when the first has x or z
\* unset, "Cannot Reach" beside its name when the first is not reachable, the distance
\* to it when it is reachable and complete.
Thm_C13_FirstMatchWins ==
  NullFree =>
    \A p \in 1..Len(portals) :
      (HasDestination(p) /\ Resolved(p) # 0) =>
        LET P == portals[p]
            F == portals[Resolved(p)]
        IN IF IsNullish(F.x) \/ IsNullish(F.z) THEN Unset(P.target)
           ELSE /\ P.target.name = F.name
                /\ ~Reachable(P, F) => P.target.distance = CannotReach
                /\ (Reachable(P, F) /\ Complete(F)) => P.target.distance = Sqrt(Dist2(P, F))

\* after a move of two same-named portals: one has "Cannot Reach" though a later portal
\* of the name is reachable, and one has a target other than the one it had in the
\* order before the move
Wit_C13_MoveChangesTarget ==
  /\ log.op = "move"
  /\ log.err = "none"
  /\ Len(portals) = 2
  /\ NullFree
  /\ \E p, j \in 1..Len(portals) :
       /\ HasDestination(p)
       /\ Resolved(p) # 0
       /\ j > Resolved(p)
       /\ portals[j].name = portals[p].destination
       /\ portals[p].target.distance = CannotReach
       /\ Complete(portals[j])
       /\ Reachable(portals[p], portals[j])
  /\ LET before == targetPass(closestPass(travelPass(swap(portals, 1, 2))))
     IN before[1].target # portals[2].target /\ portals[2].target.distance.t = "num"

\* C14: after a completed sweep a numeric target distance is always to a resolved
\* portal of the world opposite to the portal's own, hence never to the portal itself,
\* and a complete portal whose destination resolves to itself has its own name with
\* "Cannot Reach".
Thm_C14_NumericTargetOppositeWorld ==
  calc.phase = "done" =>
    \A p \in 1..Len(portals) :
      LET P == portals[p]
      IN /\ P.target.distance.t = "num" =>
              /\ Resolved(p) # 0
              /\ Resolved(p) # p
              /\ portals[Resolved(p)].world = Opposite(P.world)
         /\ (HasDestination(p) /\ Complete(P) /\ Resolved(p) = p) =>
              P.target = [t |-> "obj", name |-> P.name, distance |-> CannotReach]

\* a finished sweep with a complete portal whose destination is itself and a portal
\* with a distance to a target in the other world
Wit_C14_SelfAndOpposite ==
  /\ calc.phase = "done"
  /\ \E p \in 1..Len(portals) :
       /\ HasDestination(p)
       /\ Complete(portals[p])
       /\ Resolved(p) = p
       /\ portals[p].target.distance = CannotReach
  /\ \E q \in 1..Len(portals) :
       /\ portals[q].target.distance.t = "num"
       /\ portals[Resolved(q)].world # portals[q].world

\* without a null record in the list the derived fields are always fresh
NullFreeIsFresh == (\A i \in 1..Len(portals) : portals[i] # null) => Fresh

====
